---- MODULE Spec2Model ----
(***************************************************************************)
(* A model of continous.py: the SOCKS5 handshake probe, the TTL result     *)
(* cache, the top-N ranking store, the scan cycle and its scheduler.       *)
(*                                                                         *)
(* Conventions.  A Python str that the program parses (a proxy line) is a  *)
(* sequence: its host, then one string per character; other strs are TLA+  *)
(* strings.  A dict                                                        *)
(* is a function whose DOMAIN is its key set; a list is a sequence.  Time  *)
(* is counted in minutes.  Python's None is the reserved value None.       *)
(***************************************************************************)
EXTENDS Integers, Sequences, FiniteSets, TLC

VARIABLES
    now,          \* the wall clock, datetime.now(), in minutes
    cache_file,   \* ./etc/proxy_cache.json: the persisted cache dict
    top_file,     \* top50_best_json.txt: the persisted ranking list
    pc,           \* per thread: where the thread is
    loc,          \* per thread: the locals of its scan_proxies call
    next_run,     \* the schedule job's next_run time
    scan_interval,\* main's scan_interval
    last_fail,    \* history: per candidate, when its last live probe failed
    probe,        \* the last SOCKS5Checker.check call: input and outcome
    rank_call,    \* the last direct update_top_proxies call
    purge_call    \* the last direct clear_old_cache call

vars == <<now, cache_file, top_file, pc, loc, next_run, scan_interval,
          last_fail, probe, rank_call, purge_call>>

None == "None"

(***************************************************************************)
(* Program constants.  max_workers, max_entries and TopN are the program's *)
(* 100, 50 and 10 scaled down so that a full pool, a full store and a      *)
(* truncated sample are reached with three candidates.                     *)
(***************************************************************************)
Sentinel == 9999
TopLatency == 300
max_latency == 800
max_age_minutes == 15
max_workers == 2
max_entries == 2
TopN == 2
target_port == 80
target_host == <<"httpbin", "org">>

\* Model bounds.
TimeStep == 5
MaxTime == 15

Times == {t \in 0..MaxTime : t % TimeStep = 0}

(***************************************************************************)
(* Strings: int(), str() and the f-strings.                                *)
(***************************************************************************)
Digits == <<"0", "1", "2", "3", "4", "5", "6", "7", "8", "9">>

DigitVal(c) == CHOOSE d \in 0..9 : Digits[d + 1] = c

RECURSIVE ParseInt(_)
\* int(s) of a string of decimal digits (leading zeros allowed).
ParseInt(s) ==
    IF Len(s) = 0 THEN 0
    ELSE 10 * ParseInt(SubSeq(s, 1, Len(s) - 1)) + DigitVal(s[Len(s)])

RECURSIVE Str(_)
\* str(n) of a natural number: its canonical decimal digits.
Str(n) ==
    IF n < 10 THEN <<Digits[n + 1]>>
    ELSE Str(n \div 10) \o <<Digits[(n % 10) + 1]>>

\* The index of the first ':' of s (0: none).
FirstColon(s) ==
    IF \E i \in 1..Len(s) : s[i] = ":"
    THEN CHOOSE i \in 1..Len(s) : s[i] = ":" /\ \A j \in 1..(i - 1) : s[j] # ":"
    ELSE 0

\* proxy.split(':', 1)
SplitHost(s) == SubSeq(s, 1, FirstColon(s) - 1)

SplitPort(s) == SubSeq(s, FirstColon(s) + 1, Len(s))

RECURSIVE DotJoin(_)
DotJoin(labels) ==
    IF Len(labels) = 0 THEN ""
    ELSE IF Len(labels) = 1 THEN labels[1]
    ELSE labels[1] \o "." \o DotJoin(Tail(labels))

RECURSIVE SumLen(_)
SumLen(labels) ==
    IF Len(labels) = 0 THEN 0 ELSE Len(labels[1]) + SumLen(Tail(labels))

\* host.encode('idna') raises UnicodeError for an empty or over-long label.
IdnaFails(host) == \E i \in 1..Len(host) : Len(host[i]) = 0 \/ Len(host[i]) > 63

\* len(host_encoded)
EncodedLen(host) == SumLen(host) + (IF Len(host) = 0 THEN 0 ELSE Len(host) - 1)

(***************************************************************************)
(* SOCKS5Checker                                                           *)
(***************************************************************************)
\* __init__: the fields of the checker built for a proxy line and a target.
SOCKS5Checker(proxy, target) ==
    [proxy_host  |-> SplitHost(proxy),
     proxy_port  |-> ParseInt(SplitPort(proxy)),
     target_host |-> target[1],
     target_port |-> target[2]]

NoExc == [kind |-> "none", msg |-> ""]

ConnectFailedMsg(code) ==
    CASE code = 1 -> "[WRN] Connect failed: 1"
      [] code = 5 -> "[WRN] Connect failed: 5"
      [] OTHER    -> "[WRN] Connect failed: n"

\* A greeting test that looks at the version byte only.
GreetingAccepted_VersionOnly(greeting) == Len(greeting) >= 1 /\ greeting[1] = 5

\* "if self.sock.recv(2) != b'\x05\x00': raise": the replies that pass.
GreetingAccepted(greeting) == greeting = <<5, 0>>

\* What the socket calls of one probe do: fail_at names the socket call that
\* raises (an OSError / socket.timeout), greeting is what recv(2) returns,
\* reply what recv(4) returns, elapsed the perf_counter difference in ms.
\* The try block of check: the exception it ends with (NoExc: none), whether
\* a socket was opened, and whether the CONNECT request was sent.
TryBlock(self, net) ==
    IF net.fail_at = "connect"
    THEN [exc |-> [kind |-> "OSError", msg |-> "Connection refused"],
          sock |-> FALSE, sent_connect |-> FALSE]
    ELSE IF net.fail_at \in {"send1", "recv1"}
    THEN [exc |-> [kind |-> "OSError", msg |-> "timed out"],
          sock |-> TRUE, sent_connect |-> FALSE]
    ELSE IF ~GreetingAccepted(net.greeting)
    THEN [exc |-> [kind |-> "ValueError", msg |-> "Invalid handshake"],
          sock |-> TRUE, sent_connect |-> FALSE]
    ELSE IF IdnaFails(self.target_host)
    THEN [exc |-> [kind |-> "UnicodeError", msg |-> "label empty or too long"],
          sock |-> TRUE, sent_connect |-> FALSE]
    ELSE IF EncodedLen(self.target_host) > 255
    THEN [exc |-> [kind |-> "struct.error", msg |-> "ubyte format requires 0 <= number <= 255"],
          sock |-> TRUE, sent_connect |-> FALSE]
    ELSE IF net.fail_at = "send2"
    THEN [exc |-> [kind |-> "OSError", msg |-> "timed out"],
          sock |-> TRUE, sent_connect |-> FALSE]
    ELSE IF net.fail_at = "recv2"
    THEN [exc |-> [kind |-> "OSError", msg |-> "timed out"],
          sock |-> TRUE, sent_connect |-> TRUE]
    ELSE IF Len(net.reply) < 2
    THEN [exc |-> [kind |-> "IndexError", msg |-> "index out of range"],
          sock |-> TRUE, sent_connect |-> TRUE]
    ELSE IF net.reply[2] # 0
    THEN [exc |-> [kind |-> "ValueError", msg |-> ConnectFailedMsg(net.reply[2])],
          sock |-> TRUE, sent_connect |-> TRUE]
    ELSE [exc |-> NoExc, sock |-> TRUE, sent_connect |-> TRUE]

\* MeasuredLatency with the clock read before the reply is examined.
MeasuredLatency_BeforeReplyCheck(t, net) ==
    IF t.sent_connect THEN net.elapsed ELSE Sentinel

\* The latency check leaves in result['latency'].
MeasuredLatency(t, net) == IF t.exc = NoExc THEN net.elapsed ELSE Sentinel

\* A handler written "except ValueError".
Caught_OnlyValueError(exc) == exc.kind = "ValueError"

\* "except Exception": the exception kinds the handler catches.
Caught(exc) == exc.kind \in {"OSError", "ValueError", "UnicodeError", "struct.error", "IndexError"}

\* A close written as the last statement of the try block.
ClosedInFinally_OnlyOnSuccess(t) == t.sock /\ t.exc = NoExc

\* "finally: if self.sock: self.sock.close()": does the finally clause close.
ClosedInFinally(t) == t.sock

\* check: the dict it returns, with what else it did.  raised is an exception
\* the handler does not catch, which leaves check instead of the result.
check(self, net) ==
    LET t == TryBlock(self, net)
        handled == t.exc # NoExc /\ Caught(t.exc)
    IN  [result |-> [proxy   |-> self.proxy_host \o <<":">> \o Str(self.proxy_port),
                     latency |-> MeasuredLatency(t, net),
                     error   |-> IF handled THEN t.exc.msg ELSE None],
         raised       |-> t.exc # NoExc /\ ~Caught(t.exc),
         opened       |-> t.sock,
         open_after   |-> t.sock /\ ~ClosedInFinally(t),
         sent_connect |-> t.sent_connect]

(***************************************************************************)
(* The result cache                                                        *)
(***************************************************************************)
\* f"{proxy}_{target_host}_{target_port}"
cache_key(proxy) == proxy \o <<"_", DotJoin(target_host), "_">> \o Str(target_port)

\* load_cache: the file's dict; {} when the file is missing or unreadable.
EmptyDict == [k \in {} |-> None]

load_cache(file, readable) == IF readable THEN file ELSE EmptyDict

\* is_cache_valid with an age of exactly the TTL still valid.
is_cache_valid_Inclusive(cache_entry, t) ==
    IF "timestamp" \notin DOMAIN cache_entry THEN FALSE
    ELSE t - cache_entry.timestamp <= max_age_minutes

\* is_cache_valid(cache_entry) called at time t.
is_cache_valid(cache_entry, t) ==
    IF "timestamp" \notin DOMAIN cache_entry THEN FALSE
    ELSE t - cache_entry.timestamp < max_age_minutes

\* KeptByClear with an age of exactly the TTL kept.
KeptByClear_Inclusive(entry, t) ==
    "timestamp" \in DOMAIN entry /\ t - entry.timestamp <= max_age_minutes

\* The test clear_old_cache applies to one entry at time t.
KeptByClear(entry, t) ==
    "timestamp" \in DOMAIN entry /\ t - entry.timestamp < max_age_minutes

\* clear_old_cache(cache) called at time t.
clear_old_cache(cache, t) ==
    [k \in {k \in DOMAIN cache : KeptByClear(cache[k], t)} |-> cache[k]]

\* d[k] = v on a dict.
DictPut(d, k, v) == [x \in DOMAIN d \cup {k} |-> IF x = k THEN v ELSE d[x]]

(***************************************************************************)
(* The ranking store                                                       *)
(***************************************************************************)
\* Eligible without the test of the error.
Eligible_LatencyOnly(result) == result.latency <= TopLatency

\* The eligibility test of update_top_proxies.
Eligible(result) == result.latency <= TopLatency /\ result.error = None

\* The inner for loop with its break: the first index holding the proxy (0: none).
FindProxy(top_proxies, proxy) ==
    IF \E i \in 1..Len(top_proxies) : top_proxies[i].proxy = proxy
    THEN CHOOSE i \in 1..Len(top_proxies) :
            /\ top_proxies[i].proxy = proxy
            /\ \A j \in 1..(i - 1) : top_proxies[j].proxy # proxy
    ELSE 0

\* MergeOne without the search for an entry of the same proxy.
MergeOne_AlwaysAppend(top_proxies, result) ==
    IF ~Eligible(result) THEN top_proxies ELSE Append(top_proxies, result)

\* MergeOne keeping the better of the stored and the new measurement.
MergeOne_KeepsMinimum(top_proxies, result) ==
    IF ~Eligible(result) THEN top_proxies
    ELSE IF FindProxy(top_proxies, result.proxy) # 0
    THEN IF result.latency < top_proxies[FindProxy(top_proxies, result.proxy)].latency
         THEN [top_proxies EXCEPT ![FindProxy(top_proxies, result.proxy)] = result]
         ELSE top_proxies
    ELSE Append(top_proxies, result)

\* One iteration of the outer for loop.
MergeOne(top_proxies, result) ==
    IF ~Eligible(result) THEN top_proxies
    ELSE IF FindProxy(top_proxies, result.proxy) # 0
    THEN [top_proxies EXCEPT ![FindProxy(top_proxies, result.proxy)] = result]
    ELSE Append(top_proxies, result)

RECURSIVE MergeAll(_, _)
MergeAll(top_proxies, new_results) ==
    IF Len(new_results) = 0 THEN top_proxies
    ELSE MergeAll(MergeOne(top_proxies, new_results[1]), Tail(new_results))

\* An insertion that puts an element before the placed elements of equal key.
RECURSIVE InsertByLatency_Unstable(_, _)
InsertByLatency_Unstable(sorted, e) ==
    IF Len(sorted) = 0 THEN <<e>>
    ELSE IF sorted[Len(sorted)].latency < e.latency THEN Append(sorted, e)
    ELSE Append(InsertByLatency_Unstable(SubSeq(sorted, 1, Len(sorted) - 1), e),
                sorted[Len(sorted)])

\* list.sort(key=latency) is stable: an element goes after every element
\* already placed whose key is not greater.
RECURSIVE InsertByLatency(_, _)
InsertByLatency(sorted, e) ==
    IF Len(sorted) = 0 THEN <<e>>
    ELSE IF sorted[Len(sorted)].latency <= e.latency THEN Append(sorted, e)
    ELSE Append(InsertByLatency(SubSeq(sorted, 1, Len(sorted) - 1), e), sorted[Len(sorted)])

RECURSIVE SortByLatency(_)
SortByLatency(s) ==
    IF Len(s) = 0 THEN <<>>
    ELSE InsertByLatency(SortByLatency(SubSeq(s, 1, Len(s) - 1)), s[Len(s)])

\* s[:n]
Prefix(s, n) == SubSeq(s, 1, IF Len(s) < n THEN Len(s) ELSE n)

\* Truncate keeping the tail of the sorted list.
Truncate_KeepsLast(s) ==
    SubSeq(s, (IF Len(s) > max_entries THEN Len(s) - max_entries + 1 ELSE 1), Len(s))

\* top_proxies[:max_entries]
Truncate(s) == Prefix(s, max_entries)

\* A stamp given only to entries that have none yet.
Stamp_OnlyNew(e, t) ==
    IF "last_updated" \in DOMAIN e THEN e
    ELSE [x \in DOMAIN e \cup {"last_updated"} |-> IF x = "last_updated" THEN t ELSE e[x]]

\* proxy['last_updated'] = datetime.now().isoformat()
Stamp(e, t) == [x \in DOMAIN e \cup {"last_updated"} |-> IF x = "last_updated" THEN t ELSE e[x]]

\* update_top_proxies(new_results) at time t on the loaded list: the list it
\* writes to top_file.
update_top_proxies(new_results, loaded, t) ==
    LET kept == Truncate(SortByLatency(MergeAll(loaded, new_results)))
    IN  [i \in 1..Len(kept) |-> Stamp(kept[i], t)]

(***************************************************************************)
(* Inputs                                                                  *)
(***************************************************************************)
\* Proxy lines is_valid_proxy_format accepts: the host, ':' and the port's
\* characters.  PA0 writes port 80 with a leading zero.
PA == <<"1.2.3.4", ":", "8", "0">>
PA0 == <<"1.2.3.4", ":", "0", "8", "0">>
PB == <<"5.6.7.8", ":", "1", "0", "8", "0">>

Candidates == {PA, PA0, PB}

Threads == {"main", "sched"}

NoLocals ==
    [cache |-> EmptyDict, proxies_list |-> <<>>, good_proxies |-> <<>>,
     proxies_to_test |-> <<>>, pending |-> <<>>, inflight |-> {},
     processed |-> 0, dispatched |-> 0, checked_at |-> -1,
     top_proxies |-> <<>>, sampled |-> <<>>,
     early_return |-> FALSE, cache_at_start |-> EmptyDict, top_at_start |-> <<>>]

NotCalled == [called |-> FALSE, at |-> -1, dropped |-> {}]

\* The state before the program starts: no files, no thread running.
Blank ==
    /\ now = 0
    /\ cache_file = EmptyDict
    /\ top_file = <<>>
    /\ pc = [t \in Threads |-> "off"]
    /\ loc = [t \in Threads |-> NoLocals]
    /\ next_run = -1
    /\ scan_interval = 0
    /\ last_fail = [p \in Candidates |-> -1]
    /\ probe = NotCalled
    /\ rank_call = NotCalled
    /\ purge_call = NotCalled

(***************************************************************************)
(* SpecProbe: SOCKS5Checker.check on every proxy, target and network       *)
(***************************************************************************)
Label64 == "aaaaaaaaaaaaaaaaaaaaaaaaaaaaaaaaaaaaaaaaaaaaaaaaaaaaaaaaaaaaaaaa"

Targets == {<<target_host, target_port>>, <<<<"bad", "", "org">>, target_port>>,
            <<<<Label64, "org">>, target_port>>}

Nets ==
    [fail_at  : {"none", "connect", "send1", "recv1", "send2", "recv2"},
     greeting : {<<5, 0>>, <<5, 1>>, <<5>>, <<>>},
     reply    : {<<5, 0, 0, 1>>, <<5, 1, 0, 1>>, <<5, 5, 0, 1>>, <<5, 0>>, <<5>>, <<>>},
     elapsed  : {0, 100, 300, 500, 9999}]

ProbeInputs == [proxy : Candidates, target : Targets, net : Nets]

InitProbe ==
    /\ now = 0
    /\ cache_file = EmptyDict
    /\ top_file = <<>>
    /\ pc = [t \in Threads |-> "off"]
    /\ loc = [t \in Threads |-> NoLocals]
    /\ next_run = -1
    /\ scan_interval = 0
    /\ last_fail = [p \in Candidates |-> -1]
    /\ probe \in [called : {FALSE}, input : ProbeInputs]
    /\ rank_call = NotCalled
    /\ purge_call = NotCalled

\* SOCKS5Checker(proxy, target).check()
DoProbe ==
    /\ ~probe.called
    /\ probe' = [called |-> TRUE, input |-> probe.input,
                 out |-> check(SOCKS5Checker(probe.input.proxy, probe.input.target),
                               probe.input.net)]
    /\ UNCHANGED <<now, cache_file, top_file, pc, loc, next_run, scan_interval,
                   last_fail, rank_call, purge_call>>

SpecProbe == InitProbe /\ [][DoProbe]_vars

(***************************************************************************)
(* SpecRank: update_top_proxies called with arbitrary results              *)
(***************************************************************************)
RankProxies == {PA, PB, <<"9.9.9.9", ":", "1">>}

RankResults ==
    [proxy : RankProxies, latency : {100, 300, 301}, error : {None}]
    \cup [proxy : RankProxies, latency : {100, Sentinel}, error : {"timed out"}]

RankInputs ==
    {<<>>} \cup {<<r>> : r \in RankResults}
    \cup {<<r1, r2>> : r1, r2 \in {r \in RankResults : r.error = None}}

RankUpdate ==
    /\ \E new_results \in RankInputs :
          /\ top_file' = update_top_proxies(new_results, top_file, now)
          /\ rank_call' = [called |-> TRUE, before |-> top_file, at |-> now,
                           new_results |-> new_results]
    /\ UNCHANGED <<now, cache_file, pc, loc, next_run, scan_interval,
                   last_fail, probe, purge_call>>

RankTick ==
    /\ now < TimeStep
    /\ now' = now + TimeStep
    /\ UNCHANGED <<cache_file, top_file, pc, loc, next_run, scan_interval,
                   last_fail, probe, rank_call, purge_call>>

NextRank == RankUpdate \/ RankTick

SpecRank == Blank /\ [][NextRank]_vars

(***************************************************************************)
(* SpecCache: clear_old_cache called on arbitrary cache files              *)
(***************************************************************************)
\* Entries a cache file can hold for a key: a result with a timestamp, or
\* (a file not written by save_cache) one without.
CacheEntries(proxy) ==
    [proxy : {proxy}, latency : {100}, error : {None}, timestamp : Times]
    \cup [proxy : {proxy}, latency : {Sentinel}, error : {"timed out"}]

CacheInputs ==
    {EmptyDict}
    \cup {DictPut(EmptyDict, cache_key(PA), e) : e \in CacheEntries(PA)}
    \cup {DictPut(DictPut(EmptyDict, cache_key(PA), e), cache_key(PB), f) :
            e \in CacheEntries(PA), f \in CacheEntries(PB)}

InitCache ==
    /\ now \in Times
    /\ cache_file \in CacheInputs
    /\ top_file = <<>>
    /\ pc = [t \in Threads |-> "off"]
    /\ loc = [t \in Threads |-> NoLocals]
    /\ next_run = -1
    /\ scan_interval = 0
    /\ last_fail = [p \in Candidates |-> -1]
    /\ probe = NotCalled
    /\ rank_call = NotCalled
    /\ purge_call = NotCalled

\* cache = clear_old_cache(cache).  repeat: the call before it was made at
\* the same time; dropped: the entries that call, or else this one, removed.
Purge ==
    /\ cache_file' = clear_old_cache(cache_file, now)
    /\ LET repeat == purge_call.called /\ purge_call.at = now
       IN  purge_call' =
              [called |-> TRUE, before |-> cache_file, at |-> now, repeat |-> repeat,
               dropped |-> IF repeat THEN purge_call.dropped
                           ELSE DOMAIN cache_file \ DOMAIN clear_old_cache(cache_file, now)]
    /\ UNCHANGED <<now, top_file, pc, loc, next_run, scan_interval,
                   last_fail, probe, rank_call>>

CacheTick ==
    /\ now < MaxTime
    /\ now' = now + TimeStep
    /\ UNCHANGED <<cache_file, top_file, pc, loc, next_run, scan_interval,
                   last_fail, probe, rank_call, purge_call>>

NextCache == Purge \/ CacheTick

SpecCache == InitCache /\ [][NextCache]_vars

(***************************************************************************)
(* Spec: main, the scheduler thread and scan_proxies                       *)
(***************************************************************************)
\* What fetch_all_proxies can return: unique accepted lines, in source order.
FetchLists == {<<>>, <<PA0>>, <<PA, PB>>, <<PA, PA0, PB>>}

\* random.randint(5, 15): two of its values.
ScanIntervals == {10, 15}

\* The networks a probe of a scan meets: a proxy that answers in 100 ms and
\* an unreachable one.
ScanNets ==
    {[fail_at |-> "none", greeting |-> <<5, 0>>, reply |-> <<5, 0, 0, 1>>, elapsed |-> 100],
     [fail_at |-> "connect", greeting |-> <<>>, reply |-> <<>>, elapsed |-> 0]}

\* What run_bandwidth_tests can leave in bandwidth_mbps: the mean of its
\* four single_bandwidth_test rounds (0: every round failed).
Bandwidths == {0, 8}

ScanLabels == {"load", "fetch", "check", "probing", "save", "rank", "sample"}

\* The thread is inside scan_proxies.
InScan(t) == pc[t] \in ScanLabels

Init ==
    /\ now = 0
    /\ cache_file = EmptyDict
    /\ top_file = <<>>
    /\ pc = [t \in Threads |-> IF t = "main" THEN "setup" ELSE "off"]
    /\ loc = [t \in Threads |-> NoLocals]
    /\ next_run = -1
    /\ scan_interval \in ScanIntervals
    /\ last_fail = [p \in Candidates |-> -1]
    /\ probe = NotCalled
    /\ rank_call = NotCalled
    /\ purge_call = NotCalled

\* MainSetup with the scheduler thread started before the first scan.
MainSetup_SpawnsFirst ==
    /\ pc["main"] = "setup"
    /\ next_run' = now + scan_interval
    /\ pc' = [pc EXCEPT !["main"] = "load", !["sched"] = "poll"]
    /\ UNCHANGED <<now, cache_file, top_file, loc, scan_interval, last_fail,
                   probe, rank_call, purge_call>>

\* main: schedule.every(scan_interval).minutes.do(scan_proxies), then the
\* first scan_proxies() call, in the main thread.
MainSetup ==
    /\ pc["main"] = "setup"
    /\ next_run' = now + scan_interval
    /\ pc' = [pc EXCEPT !["main"] = "load"]
    /\ UNCHANGED <<now, cache_file, top_file, loc, scan_interval, last_fail,
                   probe, rank_call, purge_call>>

\* main, after the first scan returned: start run_scheduler in its thread and
\* sleep for ever.
MainSpawn ==
    /\ pc["main"] = "spawn"
    /\ pc["sched"] = "off"
    /\ pc' = [pc EXCEPT !["main"] = "sleep", !["sched"] = "poll"]
    /\ UNCHANGED <<now, cache_file, top_file, loc, next_run, scan_interval,
                   last_fail, probe, rank_call, purge_call>>

\* run_scheduler: schedule.run_pending() finds the job due and calls
\* scan_proxies in the scheduler thread.
RunPending ==
    /\ pc["sched"] = "poll"
    /\ now >= next_run
    /\ pc' = [pc EXCEPT !["sched"] = "load"]
    /\ UNCHANGED <<now, cache_file, top_file, loc, next_run, scan_interval,
                   last_fail, probe, rank_call, purge_call>>

\* scan_proxies returned to its caller: main goes on to start the scheduler
\* thread; the schedule job sets its next_run and run_scheduler polls again.
AfterScan(t) ==
    /\ pc[t] = "done"
    /\ loc' = [loc EXCEPT ![t] = NoLocals]
    /\ pc' = [pc EXCEPT ![t] = IF t = "main" THEN "spawn" ELSE "poll"]
    /\ next_run' = IF t = "main" THEN next_run ELSE now + scan_interval
    /\ UNCHANGED <<now, cache_file, top_file, scan_interval, last_fail,
                   probe, rank_call, purge_call>>

\* Load with the purged cache written back to the file at once.
Load_PersistsPurge(t) ==
    /\ pc[t] = "load"
    /\ \E readable \in BOOLEAN :
          /\ loc' = [loc EXCEPT ![t] =
                       [NoLocals EXCEPT
                          !.cache = clear_old_cache(load_cache(cache_file, readable), now),
                          !.cache_at_start = cache_file,
                          !.top_at_start = top_file]]
          /\ cache_file' = clear_old_cache(load_cache(cache_file, readable), now)
    /\ pc' = [pc EXCEPT ![t] = "fetch"]
    /\ UNCHANGED <<now, top_file, next_run, scan_interval,
                   last_fail, probe, rank_call, purge_call>>

\* scan_proxies: cache = load_cache(); cache = clear_old_cache(cache).
\* cache_at_start and top_at_start remember the two files as the call found
\* them, for as long as the call may still return early.
Load(t) ==
    /\ pc[t] = "load"
    /\ \E readable \in BOOLEAN :
          loc' = [loc EXCEPT ![t] =
                    [NoLocals EXCEPT
                       !.cache = clear_old_cache(load_cache(cache_file, readable), now),
                       !.cache_at_start = cache_file,
                       !.top_at_start = top_file]]
    /\ pc' = [pc EXCEPT ![t] = "fetch"]
    /\ UNCHANGED <<now, cache_file, top_file, next_run, scan_interval,
                   last_fail, probe, rank_call, purge_call>>

\* scan_proxies: proxies_list = fetch_all_proxies(...); return when empty.
Fetch(t) ==
    /\ pc[t] = "fetch"
    /\ \E list \in FetchLists :
          /\ loc' = [loc EXCEPT ![t] =
                       IF list = <<>>
                       THEN [@ EXCEPT !.early_return = TRUE]
                       ELSE [@ EXCEPT !.proxies_list = list,
                                      !.cache_at_start = EmptyDict,
                                      !.top_at_start = <<>>]]
          /\ pc' = [pc EXCEPT ![t] = IF list = <<>> THEN "done" ELSE "check"]
    /\ UNCHANGED <<now, cache_file, top_file, next_run, scan_interval,
                   last_fail, probe, rank_call, purge_call>>

\* The condition of the "check cache first" loop for one proxy at time t.
CacheHit(proxy, cache, t) ==
    cache_key(proxy) \in DOMAIN cache /\ is_cache_valid(cache[cache_key(proxy)], t)

\* The test that puts a result into good_proxies.
Good(result) == result.error = None /\ result.latency <= max_latency

RECURSIVE CachedGood(_, _, _)
\* The cached results the loop appends to good_proxies.
CachedGood(proxies_list, cache, t) ==
    IF Len(proxies_list) = 0 THEN <<>>
    ELSE LET p == proxies_list[1]
             rest == CachedGood(Tail(proxies_list), cache, t)
         IN  IF CacheHit(p, cache, t) /\ Good(cache[cache_key(p)])
             THEN <<cache[cache_key(p)]>> \o rest
             ELSE rest

RECURSIVE ToTest(_, _, _)
\* The proxies the loop appends to proxies_to_test.
ToTest(proxies_list, cache, t) ==
    IF Len(proxies_list) = 0 THEN <<>>
    ELSE LET p == proxies_list[1]
             rest == ToTest(Tail(proxies_list), cache, t)
         IN  IF CacheHit(p, cache, t) THEN rest ELSE <<p>> \o rest

\* scan_proxies: the "check cache first" loop, and the submit of every
\* proxy to test to the executor.
Check(t) ==
    /\ pc[t] = "check"
    /\ LET l == loc[t]
           to_test == ToTest(l.proxies_list, l.cache, now)
       IN  /\ loc' = [loc EXCEPT ![t] =
                        [l EXCEPT !.good_proxies = CachedGood(l.proxies_list, l.cache, now),
                                  !.proxies_to_test = to_test,
                                  !.pending = to_test,
                                  !.dispatched = Len(to_test),
                                  !.checked_at = now]]
           /\ pc' = [pc EXCEPT ![t] = IF to_test = <<>> THEN "save" ELSE "probing"]
    /\ UNCHANGED <<now, cache_file, top_file, next_run, scan_interval,
                   last_fail, probe, rank_call, purge_call>>

\* A pool that starts a thread per submitted call.
PoolHasFreeWorker_Unbounded(inflight) == TRUE

\* ThreadPoolExecutor(max_workers=max_workers): a queued call starts only
\* while fewer than max_workers calls are running.
PoolHasFreeWorker(inflight) == Cardinality(inflight) < max_workers

\* A pool worker takes the next queued check call.
StartProbe(t) ==
    /\ pc[t] = "probing"
    /\ loc[t].pending # <<>>
    /\ PoolHasFreeWorker(loc[t].inflight)
    /\ loc' = [loc EXCEPT ![t].pending = Tail(@),
                          ![t].inflight = @ \cup {Head(loc[t].pending)}]
    /\ UNCHANGED <<now, cache_file, top_file, pc, next_run, scan_interval,
                   last_fail, probe, rank_call, purge_call>>

\* A check call ends and the as_completed loop handles its future: with a
\* result, caches it and keeps it when good; with an exception,
\* future.result() raises it and the thread dies.
CompleteWith(t, p, net) ==
    /\ pc[t] = "probing"
    /\ p \in loc[t].inflight
    /\ LET l == loc[t]
           r == check(SOCKS5Checker(p, <<target_host, target_port>>), net)
           result == [proxy |-> r.result.proxy, latency |-> r.result.latency,
                      error |-> r.result.error, timestamp |-> now]
           all_done == l.pending = <<>> /\ l.inflight = {p}
       IN  IF r.raised
           THEN /\ pc' = [pc EXCEPT ![t] = "dead"]
                /\ loc' = [loc EXCEPT ![t].inflight = @ \ {p}]
                /\ UNCHANGED last_fail
           ELSE /\ loc' = [loc EXCEPT ![t] =
                             [l EXCEPT !.inflight = @ \ {p},
                                       !.processed = @ + 1,
                                       !.cache = DictPut(@, cache_key(result.proxy), result),
                                       !.good_proxies =
                                           IF Good(result) THEN Append(@, result) ELSE @]]
                /\ pc' = [pc EXCEPT ![t] = IF all_done THEN "save" ELSE "probing"]
                /\ last_fail' = [last_fail EXCEPT ![p] =
                                    IF result.error # None THEN now ELSE -1]
    /\ UNCHANGED <<now, cache_file, top_file, next_run, scan_interval,
                   probe, rank_call, purge_call>>

CompleteProbe(t) == \E p \in loc[t].inflight, net \in ScanNets : CompleteWith(t, p, net)

\* scan_proxies: save_cache(cache); an open() or dump that fails raises.
\* The locals the rest of the call never reads again are dropped.
Save(t) ==
    /\ pc[t] = "save"
    /\ \E writable \in BOOLEAN :
          IF writable
          THEN /\ cache_file' = loc[t].cache
               /\ pc' = [pc EXCEPT ![t] = "rank"]
               /\ loc' = [loc EXCEPT ![t].cache = EmptyDict,
                                     ![t].proxies_list = <<>>,
                                     ![t].proxies_to_test = <<>>,
                                     ![t].checked_at = -1]
          ELSE /\ pc' = [pc EXCEPT ![t] = "dead"]
               /\ UNCHANGED <<cache_file, loc>>
    /\ UNCHANGED <<now, top_file, next_run, scan_interval,
                   last_fail, probe, rank_call, purge_call>>

\* top_proxies = [p for p in good_proxies if p['latency'] <= 300]
TopOf(good_proxies) == SelectSeq(good_proxies, LAMBDA r : r.latency <= TopLatency)

\* scan_proxies: update_top_proxies(top_proxies), which loads top_file ([]
\* when it cannot be read) and writes it (raising when it cannot).
Rank(t) ==
    /\ pc[t] = "rank"
    /\ LET top_proxies == TopOf(loc[t].good_proxies)
       IN  /\ loc' = [loc EXCEPT ![t].top_proxies = top_proxies,
                                 ![t].good_proxies = <<>>]
           /\ \E readable, writable \in BOOLEAN :
                 IF writable
                 THEN /\ top_file' = update_top_proxies(top_proxies,
                                        IF readable THEN top_file ELSE <<>>, now)
                      /\ pc' = [pc EXCEPT ![t] =
                                   IF top_proxies = <<>> THEN "done" ELSE "sample"]
                 ELSE /\ pc' = [pc EXCEPT ![t] = "dead"]
                      /\ UNCHANGED top_file
    /\ UNCHANGED <<now, cache_file, next_run, scan_interval,
                   last_fail, probe, rank_call, purge_call>>

\* bandwidth_results.sort(key=bandwidth_mbps, reverse=True), which is stable.
RECURSIVE InsertByBandwidth(_, _)
InsertByBandwidth(sorted, e) ==
    IF Len(sorted) = 0 THEN <<e>>
    ELSE IF sorted[Len(sorted)].bandwidth_mbps >= e.bandwidth_mbps THEN Append(sorted, e)
    ELSE Append(InsertByBandwidth(SubSeq(sorted, 1, Len(sorted) - 1), e), sorted[Len(sorted)])

RECURSIVE SortByBandwidth(_)
SortByBandwidth(s) ==
    IF Len(s) = 0 THEN <<>>
    ELSE InsertByBandwidth(SortByBandwidth(SubSeq(s, 1, Len(s) - 1)), s[Len(s)])

\* top_proxies.sort(key=latency); top_10 = top_proxies[:10]
Top10(top_proxies) == Prefix(SortByLatency(top_proxies), TopN)

\* scan_proxies: the bandwidth tests of top_10 and the write of
\* top10_socks5.txt (raising when it cannot be written).
Sample(t) ==
    /\ pc[t] = "sample"
    /\ LET top_10 == Top10(loc[t].top_proxies)
       IN  \E bw \in [1..Len(top_10) -> Bandwidths], writable \in BOOLEAN :
              /\ loc' = [loc EXCEPT ![t].sampled =
                           SortByBandwidth([i \in 1..Len(top_10) |->
                              [proxy |-> top_10[i].proxy, latency |-> top_10[i].latency,
                               error |-> top_10[i].error, bandwidth_mbps |-> bw[i]]])]
              /\ pc' = [pc EXCEPT ![t] = IF writable THEN "done" ELSE "dead"]
    /\ UNCHANGED <<now, cache_file, top_file, next_run, scan_interval,
                   last_fail, probe, rank_call, purge_call>>

\* The wall clock advances.
Tick ==
    /\ now < MaxTime
    /\ now' = now + TimeStep
    /\ UNCHANGED <<cache_file, top_file, pc, loc, next_run, scan_interval,
                   last_fail, probe, rank_call, purge_call>>

Next ==
    \/ MainSetup
    \/ MainSpawn
    \/ RunPending
    \/ Tick
    \/ \E t \in Threads :
          \/ Load(t)
          \/ Fetch(t)
          \/ Check(t)
          \/ StartProbe(t)
          \/ CompleteProbe(t)
          \/ Save(t)
          \/ Rank(t)
          \/ Sample(t)
          \/ AfterScan(t)

Spec == Init /\ [][Next]_vars

(***************************************************************************)
(* Properties                                                              *)
(***************************************************************************)
Range(s) == {s[i] : i \in 1..Len(s)}

\* An entry or result without its time stamps.
Core(e) == [proxy |-> e.proxy, latency |-> e.latency, error |-> e.error]

\* result['proxy'] of the check of a proxy line.
ResultName(p) ==
    LET self == SOCKS5Checker(p, <<target_host, target_port>>)
    IN  self.proxy_host \o <<":">> \o Str(self.proxy_port)

\* The "check cache first" loop of t's scan has run and no probe has ended.
JustChecked(t) ==
    pc[t] \in {"probing", "save"} /\ loc[t].checked_at >= 0 /\ loc[t].processed = 0

\* C1: a candidate whose live probe failed in an earlier cycle, and whose
\* failed result is in the loaded cache and younger than the TTL when the
\* next cycle looks it up, is not put in that cycle's proxies_to_test.
C1_FailedProbeNotRepeated ==
    \A t \in Threads :
        JustChecked(t) =>
            \A p \in Range(loc[t].proxies_list) :
                (/\ last_fail[p] >= 0
                 /\ \E k \in DOMAIN loc[t].cache :
                       /\ loc[t].cache[k].proxy = ResultName(p)
                       /\ loc[t].cache[k].error # None
                       /\ loc[t].cache[k].timestamp = last_fail[p]
                       /\ loc[t].checked_at - loc[t].cache[k].timestamp < max_age_minutes)
                => p \notin Range(loc[t].proxies_to_test)

\* C2: after any sequence of update_top_proxies calls from an empty store,
\* the store has at most max_entries entries, is sorted ascending by
\* latency and holds no proxy twice.
C2_StoreBoundedSortedUnique ==
    /\ Len(top_file) <= max_entries
    /\ \A i, j \in 1..Len(top_file) :
          i < j => /\ top_file[i].latency <= top_file[j].latency
                   /\ top_file[i].proxy # top_file[j].proxy

\* An update whose results named one new proxy twice, on a full store.
C2_Witness ==
    /\ rank_call.called
    /\ Len(rank_call.before) = max_entries
    /\ Len(rank_call.new_results) = 2
    /\ rank_call.new_results[1].proxy = rank_call.new_results[2].proxy
    /\ rank_call.new_results[1].latency < rank_call.new_results[2].latency
    /\ \A i \in 1..Len(rank_call.before) :
          rank_call.before[i].proxy # rank_call.new_results[1].proxy
    /\ \E i \in 1..Len(top_file) : top_file[i].proxy = rank_call.new_results[1].proxy

\* C3: a result check returns has either an error and the sentinel latency,
\* or no error and the measured latency (>= 0), never both or neither.
C3_ErrorXorLatency ==
    (probe.called /\ ~probe.out.raised) =>
        LET r == probe.out.result
            failed == r.error # None /\ r.latency = Sentinel
            measured == r.error = None /\ r.latency >= 0
                        /\ r.latency = probe.input.net.elapsed
        IN  /\ failed \/ measured
            /\ ~(failed /\ measured)
            /\ r.error # None => r.latency = Sentinel

\* A probe that failed at the CONNECT reply, 100 ms after it began.
C3_Witness ==
    /\ probe.called
    /\ probe.out.sent_connect
    /\ probe.input.net.elapsed = 100
    /\ probe.out.result.error # None
    /\ probe.out.result.latency = Sentinel

\* C4: a scan whose fetch returned no candidates has returned with both
\* files as it found them and without dispatching a probe.
C4_EmptyFetchTouchesNothing ==
    \A t \in Threads :
        (pc[t] = "done" /\ loc[t].early_return) =>
            /\ cache_file = loc[t].cache_at_start
            /\ top_file = loc[t].top_at_start
            /\ loc[t].dispatched = 0
            /\ loc[t].processed = 0
            /\ loc[t].pending = <<>>
            /\ loc[t].inflight = {}

\* An early return whose in-memory purge dropped an entry of a cache file
\* that, like the ranking file, holds entries.
C4_Witness ==
    \E t \in Threads :
        /\ pc[t] = "done"
        /\ loc[t].early_return
        /\ top_file # <<>>
        /\ loc[t].cache # EmptyDict
        /\ DOMAIN loc[t].cache # DOMAIN cache_file

\* C5: in the "check cache first" loop a candidate is taken from the cache
\* exactly when its key has an entry with a timestamp younger than the TTL
\* at that time; every other candidate is in proxies_to_test.
C5_HitOnlyIfValid ==
    \A t \in Threads :
        JustChecked(t) =>
            \A p \in Range(loc[t].proxies_list) :
                LET k == cache_key(p)
                    young == /\ k \in DOMAIN loc[t].cache
                             /\ "timestamp" \in DOMAIN loc[t].cache[k]
                             /\ loc[t].checked_at - loc[t].cache[k].timestamp
                                   < max_age_minutes
                IN  young <=> p \notin Range(loc[t].proxies_to_test)

\* A lookup that finds an entry aged exactly the TTL and schedules the probe.
C5_Witness ==
    \E t \in Threads :
        /\ JustChecked(t)
        /\ \E p \in Range(loc[t].proxies_list) :
              /\ cache_key(p) \in DOMAIN loc[t].cache
              /\ loc[t].checked_at - loc[t].cache[cache_key(p)].timestamp = max_age_minutes
              /\ p \in Range(loc[t].proxies_to_test)

\* C6: clear_old_cache returns exactly the entries whose age is below the
\* TTL, unchanged, and a second call right after the first changes nothing.
C6_PurgeExactAndIdempotent ==
    purge_call.called =>
        /\ DOMAIN cache_file =
              {k \in DOMAIN purge_call.before :
                  /\ "timestamp" \in DOMAIN purge_call.before[k]
                  /\ purge_call.at - purge_call.before[k].timestamp < max_age_minutes}
        /\ \A k \in DOMAIN cache_file : cache_file[k] = purge_call.before[k]
        /\ purge_call.repeat => cache_file = purge_call.before

\* A second call in a row, after a first one that removed one of two entries.
C6_Witness ==
    /\ purge_call.called
    /\ purge_call.repeat
    /\ Cardinality(purge_call.dropped) = 1
    /\ Cardinality(DOMAIN cache_file) = 1

\* C7: at most one thread is inside scan_proxies.
C7_OneScanAtATime == Cardinality({t \in Threads : InScan(t)}) <= 1

\* The job falls due while the first scan is still running.
C7_Witness == InScan("main") /\ next_run >= 0 /\ now >= next_run

\* C8: a scan never has more than max_workers probes in flight.
C8_InFlightBounded ==
    \A t \in Threads : Cardinality(loc[t].inflight) <= max_workers

\* A full pool with a candidate still queued.
C8_Witness ==
    \E t \in Threads :
        Cardinality(loc[t].inflight) = max_workers /\ loc[t].pending # <<>>

\* The batch of t's scan is over: every dispatched probe was handled.
BatchComplete(t) ==
    /\ loc[t].processed = loc[t].dispatched
    /\ loc[t].pending = <<>>
    /\ loc[t].inflight = {}

C10_Case ==
    /\ rank_call.called
    /\ Len(rank_call.before) = max_entries
    /\ Len(rank_call.new_results) = 1
    /\ Eligible(rank_call.new_results[1])
    /\ \A i \in 1..Len(rank_call.before) :
          /\ rank_call.before[i].proxy # rank_call.new_results[1].proxy
          /\ rank_call.new_results[1].latency < rank_call.before[i].latency

\* C10: in that case the store afterwards starts with the new entry, keeps
\* the other entries but the former last one, in order, and is still full.
C10_NewBestEvictsWorst ==
    C10_Case =>
        /\ Len(top_file) = max_entries
        /\ Core(top_file[1]) = Core(rank_call.new_results[1])
        /\ \A i \in 1..(max_entries - 1) :
              Core(top_file[i + 1]) = Core(rank_call.before[i])
        /\ \A i \in 1..Len(top_file) :
              top_file[i].proxy # rank_call.before[max_entries].proxy

\* The case of C10, the new proxy now in the store.
C10_Witness ==
    /\ C10_Case
    /\ \E i \in 1..Len(top_file) : top_file[i].proxy = rank_call.new_results[1].proxy

\* The cycle of t ran its bandwidth tests and returned.
Sampled(t) == pc[t] = "done" /\ loc[t].sampled # <<>>

\* The proxies of the first n entries of a list.
FirstProxies(s, n) == {s[i].proxy : i \in 1..(IF Len(s) < n THEN Len(s) ELSE n)}

\* C11: the entries a cycle bandwidth-samples are exactly the first
\* min(TopN, size) entries of the ranking store as that cycle's update left
\* it, entries retained from earlier cycles included.
C11_SampledIsStorePrefix ==
    \A t \in Threads :
        Sampled(t) =>
            {loc[t].sampled[i].proxy : i \in 1..Len(loc[t].sampled)}
                = FirstProxies(top_file, TopN)

\* C12: when a cycle that sampled has ended, the persisted ranking list
\* carries, for every sampled entry, the bandwidth_mbps the sampling found.
C12_PersistedListCarriesBandwidth ==
    \A t \in Threads :
        Sampled(t) =>
            \A i \in 1..Len(loc[t].sampled) :
                \E j \in 1..Len(top_file) :
                    /\ top_file[j].proxy = loc[t].sampled[i].proxy
                    /\ "bandwidth_mbps" \in DOMAIN top_file[j]
                    /\ top_file[j].bandwidth_mbps = loc[t].sampled[i].bandwidth_mbps

\* C13: neither the load of the cache file nor its save ends the cycle: from
\* the load the cycle goes on to the fetch, from the save to the ranking
\* update.
C13_CacheFailureNotFatal ==
    [][\A t \in Threads :
          /\ (pc[t] = "load" /\ pc'[t] # "load") => pc'[t] = "fetch"
          /\ (pc[t] = "save" /\ pc'[t] # "save") => pc'[t] = "rank"]_vars

\* C15: when the batch of a cycle is over, the result of every candidate it
\* probed is in the cache under the key the lookup builds for that candidate.
C15_StoreKeyIsLookupKey ==
    \A t \in Threads :
        (pc[t] = "save" /\ loc[t].checked_at >= 0) =>
            \A p \in Range(loc[t].proxies_to_test) :
                /\ cache_key(p) \in DOMAIN loc[t].cache
                /\ cache_key(p) = cache_key(ResultName(p))

\* C14: whatever path check leaves by, a connection the probe opened is
\* closed when check returns.
C14_NoSocketLeftOpen ==
    probe.called => (probe.out.opened => ~probe.out.open_after)

\* A probe that connected, sent its CONNECT request and failed at the reply.
C14_Witness ==
    /\ probe.called
    /\ probe.out.opened
    /\ probe.out.sent_connect
    /\ probe.out.result.error # None
    /\ probe.input.net.fail_at = "none"

\* The probe reported success: no error, and the latency the clock measured
\* (which a slow proxy can bring to the sentinel's value).
Succeeded(out) == ~out.raised /\ out.result.error = None

\* The probe reported failure.
Failed(out) == ~out.raised /\ out.result.error # None /\ out.result.latency = Sentinel

\* C16: check reports success only after the greeting reply 05 00 and a
\* CONNECT reply with reply code 00; any other greeting reply, a short one
\* included, or a non-zero reply code gives a failure with latency 9999,
\* and after a rejected greeting no CONNECT request is sent.
C16_SuccessNeedsBothReplies ==
    probe.called =>
        LET net == probe.input.net
            out == probe.out
        IN  /\ Succeeded(out) \/ Failed(out)
            /\ Succeeded(out) =>
                  /\ net.greeting = <<5, 0>>
                  /\ Len(net.reply) >= 2
                  /\ net.reply[2] = 0
                  /\ out.result.latency = net.elapsed
            /\ net.greeting # <<5, 0>> => Failed(out) /\ ~out.sent_connect
            /\ (Len(net.reply) >= 2 /\ net.reply[2] # 0) => Failed(out)

\* A server that answers the greeting with 05 01 and would have answered a
\* CONNECT request with success.
C16_Witness ==
    /\ probe.called
    /\ probe.input.net.fail_at = "none"
    /\ probe.input.net.greeting = <<5, 1>>
    /\ probe.input.net.reply = <<5, 0, 0, 1>>
    /\ probe.input.target = <<target_host, target_port>>
    /\ probe.out.result.error = "Invalid handshake"
    /\ ~probe.out.sent_connect

\* The proxies of a list.
Proxies(s) == {s[i].proxy : i \in 1..Len(s)}

\* The entries of a list that name a proxy.
EntriesOf(s, proxy) == {i \in 1..Len(s) : s[i].proxy = proxy}

\* The index of the last eligible result of a call for a proxy (0: none).
LastEligible(new_results, proxy) ==
    LET hits == {i \in 1..Len(new_results) :
                    new_results[i].proxy = proxy /\ Eligible(new_results[i])}
    IN  IF hits = {} THEN 0 ELSE CHOOSE i \in hits : \A j \in hits : j <= i

\* C17: from an empty store, after any sequence of updates, every entry of
\* the store has error None and a latency of at most 300.
C17_StoreHoldsOnlyEligible ==
    \A i \in 1..Len(top_file) :
        top_file[i].error = None /\ top_file[i].latency <= TopLatency

\* An update with a failed result, its latency below 300, for a proxy that
\* is and stays in the store.
C17_Witness ==
    /\ rank_call.called
    /\ Len(rank_call.new_results) = 1
    /\ rank_call.new_results[1].error # None
    /\ rank_call.new_results[1].latency <= TopLatency
    /\ rank_call.new_results[1].proxy \in Proxies(rank_call.before)
    /\ rank_call.new_results[1].proxy \in Proxies(top_file)

\* C18 as stated: after an update with an eligible result for a proxy of the
\* store, the store has exactly one entry for that proxy and it is the new
\* result.
C18_ReplacedAndStillListed ==
    rank_call.called =>
        \A p \in Proxies(rank_call.before) :
            LastEligible(rank_call.new_results, p) # 0 =>
                /\ Cardinality(EntriesOf(top_file, p)) = 1
                /\ \A i \in EntriesOf(top_file, p) :
                      Core(top_file[i]) =
                          Core(rank_call.new_results[LastEligible(rank_call.new_results, p)])

\* The call appends an entry: an eligible result for a proxy not in the store.
AddsProxy(call) ==
    \E i \in 1..Len(call.new_results) :
        /\ Eligible(call.new_results[i])
        /\ call.new_results[i].proxy \notin Proxies(call.before)

\* C18, amended: after such an update the store has at most one entry for
\* that proxy; an entry it has is the new result, also when that is slower
\* than the old one; and it has one unless the same call appended an entry
\* for a new proxy.
C18_ReplacedNotMerged ==
    rank_call.called =>
        \A p \in Proxies(rank_call.before) :
            LastEligible(rank_call.new_results, p) # 0 =>
                /\ Cardinality(EntriesOf(top_file, p)) <= 1
                /\ \A i \in EntriesOf(top_file, p) :
                      Core(top_file[i]) =
                          Core(rank_call.new_results[LastEligible(rank_call.new_results, p)])
                /\ ~AddsProxy(rank_call) => Cardinality(EntriesOf(top_file, p)) = 1

\* A stored entry replaced by a slower measurement of the same proxy.
C18_Witness ==
    /\ rank_call.called
    /\ Len(rank_call.new_results) = 1
    /\ Eligible(rank_call.new_results[1])
    /\ \E i \in 1..Len(rank_call.before) :
          /\ rank_call.before[i].proxy = rank_call.new_results[1].proxy
          /\ rank_call.before[i].latency < rank_call.new_results[1].latency
    /\ \E i \in 1..Len(top_file) : Core(top_file[i]) = Core(rank_call.new_results[1])

\* The case of C19's last clause: a full store and one eligible result for a
\* new proxy whose latency is that of the store's last entry.
C19_TieCase ==
    /\ rank_call.called
    /\ Len(rank_call.before) = max_entries
    /\ Len(rank_call.new_results) = 1
    /\ Eligible(rank_call.new_results[1])
    /\ rank_call.new_results[1].proxy \notin Proxies(rank_call.before)
    /\ rank_call.new_results[1].latency = rank_call.before[max_entries].latency

\* C19: after an update, entries of equal latency stand in the order they
\* had in the merged list: stored entries, replaced ones included, in their
\* old order and before appended ones; so a new entry that ties with the
\* last entry of a full store is the one cut off.
C19_TiesKeepMergeOrder ==
    rank_call.called =>
        LET merged == MergeAll(rank_call.before, rank_call.new_results)
        IN  /\ \A i, j \in 1..Len(top_file) :
                  (i < j /\ top_file[i].latency = top_file[j].latency) =>
                      /\ FindProxy(merged, top_file[i].proxy)
                            < FindProxy(merged, top_file[j].proxy)
                      /\ top_file[j].proxy \in Proxies(rank_call.before) =>
                            /\ top_file[i].proxy \in Proxies(rank_call.before)
                            /\ FindProxy(rank_call.before, top_file[i].proxy)
                                  < FindProxy(rank_call.before, top_file[j].proxy)
            /\ C19_TieCase =>
                  /\ rank_call.new_results[1].proxy \notin Proxies(top_file)
                  /\ Len(top_file) = max_entries
                  /\ \A i \in 1..max_entries :
                        Core(top_file[i]) = Core(rank_call.before[i])

\* The tie case, on a store whose entries all have the new result's latency.
C19_Witness ==
    /\ C19_TieCase
    /\ rank_call.before[1].latency = rank_call.new_results[1].latency
    /\ Len(top_file) = max_entries

\* C20: an entry of the store for which the call has no eligible result
\* keeps its proxy, latency and error and gets the call's time as its
\* last_updated, unless the cut to max_entries removes it, which takes a
\* store that is full of entries no slower than it.
C20_UntouchedEntryRestamped ==
    rank_call.called =>
        \A k \in 1..Len(rank_call.before) :
            LET e == rank_call.before[k]
            IN  LastEligible(rank_call.new_results, e.proxy) = 0 =>
                    /\ Cardinality(EntriesOf(top_file, e.proxy)) <= 1
                    /\ \A i \in EntriesOf(top_file, e.proxy) :
                          /\ Core(top_file[i]) = Core(e)
                          /\ top_file[i].last_updated = rank_call.at
                    /\ EntriesOf(top_file, e.proxy) = {} =>
                          /\ Len(top_file) = max_entries
                          /\ \A i \in 1..Len(top_file) : top_file[i].latency <= e.latency

\* An entry stamped by an earlier call, kept and stamped again by a later
\* call whose only result for its proxy had failed.
C20_Witness ==
    /\ rank_call.called
    /\ rank_call.at > 0
    /\ Len(rank_call.new_results) = 1
    /\ rank_call.new_results[1].error # None
    /\ \E k \in 1..Len(rank_call.before), i \in 1..Len(top_file) :
          /\ rank_call.before[k].proxy = rank_call.new_results[1].proxy
          /\ rank_call.before[k].last_updated < rank_call.at
          /\ top_file[i].proxy = rank_call.before[k].proxy
          /\ top_file[i].last_updated = rank_call.at

====
